---- MODULE Spec2Model ----
(***************************************************************************)
(* Telegram MTProto relay (src/unnamed/part_000): the registry of protocol *)
(* clients (telegramClients), connectBot / disconnectBot, and the event    *)
(* handler built by createMessageHandler, which resolves the profile       *)
(* photo and the media of an event and then posts it to the ingestion      *)
(* endpoint (syncViaBackendFunction).  Every `await` of the code is a      *)
(* point where another callback may run, so each handler is cut into one   *)
(* action per stretch of code between two awaits.                          *)
(***************************************************************************)
EXTENDS Integers, Sequences, FiniteSets, TLC

\* ------------------------------------------------------------------ bounds
Bots == {1, 2}
MaxClients == 2       \* TelegramClient objects ever constructed
MaxCalls == 2         \* connectBot / disconnectBot calls in progress at once
MaxMsgs == 1          \* updates per account under Spec
MaxLoad == 4          \* updates of the account under SpecDelivery
MaxEvents == 2        \* updates of the account under SpecSession
MaxLookups == 2       \* updates of the account under SpecCache
MaxRace == 3          \* updates of the account under SpecCacheRace
MaxTime == 3          \* last reading of the clock under SpecCache, SpecCacheRace
MaxMedia == 2         \* updates of the account under SpecMedia
MaxIds == 2           \* updates of the account under SpecIds
MaxTimed == 2         \* updates of the account under SpecTimed
MaxDocs == 1          \* updates of the account under SpecClassify
MaxUploads == 2       \* updates of the account under SpecUpload
MaxDetach == 1        \* updates of the account under SpecDetach
MaxTokens == 1        \* updates of each account under SpecTokens
SignificandBits == 4  \* width of the significand of a Number (53), scaled down

Clients == 1..MaxClients
CallIds == 1..MaxCalls
NoClient == 0

\* ------------------------------------------- tunables named by the design
maxConcurrent == 3
maxQueueSize == 2
maxRetries == 5
timeoutTicks == 1     \* 30 s, rounded up to a reading of the clock
baseDelays == {1, 2}  \* settings of the backoff, in readings of the clock
multipliers == {1, 2}
maxDelays == {1, 3}

\* ------------------------------------------------------------ program data
NetErr == 0
Statuses == {200, 400, 500, NetErr}
FreshWindow == 2      \* 3600000 ms, in units of 1800000 ms
AutoReconnectOff == FALSE
AutoReconnect == TRUE

ResponseOk(s) == s >= 200 /\ s <= 299

Kinds == {"nomsg", "nopeer", "chat"}
MediaKinds == {"none", "photo", "tgs", "unknown", "doc"}

\* doc.mimeType as <<type, subtype>>, and the document of a message: whether its
\* attributes hold a DocumentAttributeSticker, a DocumentAttributeAnimated, a
\* DocumentAttributeVideo with nosound, and whether the message has a photo too
NoMime == <<>>
Mimes ==
  {NoMime, <<"application", "x-tgsticker">>, <<"video", "webm">>, <<"video", "mp4">>,
   <<"image", "png">>, <<"audio", "ogg">>, <<"application", "pdf">>}
Docs == [sticker : BOOLEAN, animated : BOOLEAN, nosound : BOOLEAN, mimeType : Mimes,
         photo : BOOLEAN]
NoDoc == [sticker |-> FALSE, animated |-> FALSE, nosound |-> FALSE, mimeType |-> NoMime,
          photo |-> FALSE]

\* photo.id / doc.id of the media of an event, and the bytes its download yields
NoId == 0 - 1
MediaIds == {7, 12}
Contents == {1, 2}

\* peerId.userId / chatId / channelId and message.id of an event
RECURSIVE Pow2(_)
Pow2(k) == IF k = 0 THEN 1 ELSE 2 * Pow2(k - 1)
MaxSafe == Pow2(SignificandBits) - 1
ChatIds == {5, MaxSafe + 2}
MsgIds == {3, 9}
EmptyBytes == 0       \* a download that yields nothing, or a buffer of length 0
Message == [kind : Kinds, out : BOOLEAN, senderBot : BOOLEAN, media : MediaKinds,
            mid : MediaIds \cup {NoId}, bytes : Contents \cup {EmptyBytes},
            peer : ChatIds \cup {NoId}, id : MsgIds, doc : Docs]

EmptyEvent ==
  [kind |-> "nomsg", out |-> FALSE, senderBot |-> FALSE, media |-> "none", mid |-> NoId, bytes |-> 1,
   peer |-> NoId, id |-> 3, doc |-> NoDoc]
NoPeerEvent ==
  [kind |-> "nopeer", out |-> FALSE, senderBot |-> FALSE, media |-> "none", mid |-> NoId, bytes |-> 1,
   peer |-> NoId, id |-> 3, doc |-> NoDoc]
MediaEvent(md, id, c) ==
  [kind |-> "chat", out |-> TRUE, senderBot |-> FALSE, media |-> md, mid |-> id, bytes |-> c,
   peer |-> 5, id |-> 3, doc |-> NoDoc]
ChatEvent(o, sb, md) ==
  [kind |-> "chat", out |-> o, senderBot |-> sb, media |-> md,
   mid |-> IF md \in {"photo", "tgs"} THEN 7 ELSE NoId, bytes |-> 1, peer |-> 5, id |-> 3, doc |-> NoDoc]
DocEvent(d) == [MediaEvent("doc", 7, 1) EXCEPT !.doc = d]
IdEvent(p, n) ==
  [kind |-> "chat", out |-> TRUE, senderBot |-> FALSE, media |-> "none", mid |-> NoId, bytes |-> 1,
   peer |-> p, id |-> n, doc |-> NoDoc]

\* the event shapes each specification draws from
RegistryMsgs == {EmptyEvent, NoPeerEvent, ChatEvent(TRUE, FALSE, "none")}
LoadMsgs == {ChatEvent(TRUE, FALSE, "none"), ChatEvent(TRUE, FALSE, "photo")}
TimedMsgs == {ChatEvent(TRUE, FALSE, "none"), ChatEvent(TRUE, FALSE, "photo")}
SessionMsgs == {ChatEvent(FALSE, FALSE, "none"), ChatEvent(TRUE, FALSE, "photo")}
NoPeerPhoto ==
  [kind |-> "nopeer", out |-> FALSE, senderBot |-> FALSE, media |-> "photo", mid |-> 7, bytes |-> 1,
   peer |-> NoId, id |-> 3, doc |-> NoDoc]
IdMsgs == {IdEvent(p, n) : p \in ChatIds, n \in MsgIds}
MediaMsgs ==
  {MediaEvent("photo", id, c) : id \in MediaIds, c \in Contents}
    \cup {MediaEvent("unknown", NoId, c) : c \in Contents}
    \cup {MediaEvent("photo", 7, EmptyBytes), MediaEvent("tgs", 7, 1)}
DocMsgs ==
  {DocEvent(d) : d \in Docs} \cup {MediaEvent("photo", 7, 1), MediaEvent("unknown", NoId, 1)}
UploadMsgs ==
  {ChatEvent(TRUE, FALSE, "none"), MediaEvent("photo", 7, 1), MediaEvent("photo", 7, EmptyBytes),
   MediaEvent("tgs", 7, 1), MediaEvent("unknown", NoId, 2)}
DetachMsgs == {ChatEvent(FALSE, FALSE, "photo"), ChatEvent(TRUE, FALSE, "none")}
TokenMsgs == {ChatEvent(TRUE, FALSE, "none"), MediaEvent("photo", 7, 1)}
CacheMsgs == {EmptyEvent, NoPeerPhoto, ChatEvent(FALSE, FALSE, "none"), ChatEvent(FALSE, TRUE, "none")}
CacheStatuses == {200}

\* photoCache.get(cacheKey) of a chat with no entry
NoEntry == [present |-> FALSE, url |-> FALSE, timestamp |-> 0]
\* a request in progress: the endpoint, whether it carried the configured
\* x-sync-secret, and the roster's accounts loadAndConnectBots has still to connect
\* tried: the clients a shutdown has called disconnect on; before: the clients
\* that had an entry when a reload began; passed: the accounts of the roster
\* connectBot found in the registry; failed: those whose connect failed
Call(ep, pc, b, c) ==
  [pc |-> pc, bot |-> b, client |-> c, ep |-> ep, auth |-> FALSE, todo |-> {}, tried |-> {},
   before |-> {}, passed |-> {}, failed |-> {}]
IdleCall == Call("none", "idle", 0, NoClient)
Endpoints == {"reload-bots", "reload"}

VARIABLES
  telegramClients,   \* registry: account -> client of its entry, or NoClient
  clientState,       \* client -> "free" | "starting" | "connected" | "down" | "reconnecting" | "closed"
  clientBot,         \* client -> account it was constructed for (0: none)
  hasHandler,        \* client -> the NewMessage handler has been added
  photoCache,        \* client -> the photoCache entry of its handler (one chat)
  seen,              \* client -> number of the account's updates dispatched to it
  updates,           \* account -> updates produced by the network, in order
  calls,             \* connectBot / disconnectBot calls in progress
  inv,               \* handler invocations, in arrival order
  now,               \* Date.now(), in units of 1800000 ms
  overflow           \* history: accepted events that arrived with maxQueueSize or more pending

vars == <<telegramClients, clientState, clientBot, hasHandler, photoCache, seen,
          updates, calls, inv, now, overflow>>

registryVars == <<telegramClients, clientState, clientBot, hasHandler>>

\* ------------------------------------------------------------ handler logic
extractChatIdAny(m) == TRUE
extractChatId(m) == IF m.kind = "chat" THEN TRUE ELSE FALSE

NeedsPhoto(m) == ~m.out /\ ~m.senderBot

CacheFreshAny(c) == photoCache[c].present /\ photoCache[c].url
CacheFresh(c) ==
  photoCache[c].present /\ photoCache[c].url /\ (now - photoCache[c].timestamp) < FreshWindow

\* what the handler does to the chat's entry with the result of the fetch
StoredEntryAlways(url, t) == [present |-> TRUE, url |-> url, timestamp |-> t]
StoredEntry(url, t) ==
  IF url THEN [present |-> TRUE, url |-> TRUE, timestamp |-> t] ELSE NoEntry

\* history: age of the chat's entry at the lookup (-1: no entry), and the time of
\* the last fetch of this handler that returned a photo (-1: none yet)
EntryAge(c) == IF photoCache[c].present THEN now - photoCache[c].timestamp ELSE 0 - 1
FetchTimes(c) == {inv[i].photoAt : i \in {k \in DOMAIN inv : inv[k].client = c}} \cup {0 - 1}
LastOk(c) == CHOOSE t \in FetchTimes(c) : \A u \in FetchTimes(c) : u <= t

hasMedia(m) == m.media # "none"

\* ----------------------------------------------------------- identifiers, keys
Digits == <<"0", "1", "2", "3", "4", "5", "6", "7", "8", "9">>

\* the decimal digits of a non-negative integer, as value.toString() writes them
RECURSIVE DecStr(_)
DecStr(n) == IF n < 10 THEN <<Digits[n + 1]>> ELSE DecStr(n \div 10) \o <<Digits[(n % 10) + 1]>>

Null == <<>>
bigIntToString(value) == IF value = NoId THEN Null ELSE DecStr(value)

\* the integer a string of decimal digits denotes
DigitVal(ch) == CHOOSE d \in 0..9 : Digits[d + 1] = ch
RECURSIVE StrToNat(_)
StrToNat(str) ==
  IF Len(str) = 0 THEN 0
  ELSE 10 * StrToNat(SubSeq(str, 1, Len(str) - 1)) + DigitVal(str[Len(str)])

\* the Number nearest to an integer: exact up to the significand's width, then
\* rounded to a multiple of the unit in the last place, ties to even
RECURSIVE Ulp(_, _)
Ulp(n, u) == IF n < Pow2(SignificandBits) * u THEN u ELSE Ulp(n, 2 * u)
ToNumber(n) ==
  LET u == Ulp(n, 1)
      q == n \div u
      r == n % u
  IN IF 2 * r < u THEN q * u
     ELSE IF 2 * r > u THEN (q + 1) * u
     ELSE IF q % 2 = 0 THEN q * u ELSE (q + 1) * u

\* values of the payload: a string, or a Number written as JSON writes it
Str(text) == [type |-> "string", text |-> text]
Num(n) == [type |-> "number", text |-> DecStr(n)]
parseInt(str) == Num(ToNumber(StrToNat(str)))

\* extractChatId's result for a peer that has an identifier
chatIdOf(m) == bigIntToString(m.peer)

NoPayload == [chatId |-> Str(Null), messageId |-> Str(Null), isOutgoing |-> FALSE]

\* message.out === true
isOutgoingNever(m) == FALSE
isOutgoing(m) == m.out = TRUE

\* chatId, messageId and isOutgoing of the payload the handler of part_000 builds
payload(m) ==
  [chatId |-> Str(chatIdOf(m)), messageId |-> Str(bigIntToString(m.id)),
   isOutgoing |-> isOutgoing(m)]

\* chat_id, message_id and direction the first handler of src/index.js builds
chatData(m) ==
  [chatId |-> parseInt(chatIdOf(m)), messageId |-> parseInt(bigIntToString(m.id)),
   isOutgoing |-> isOutgoing(m)]

\* the id getMediaInfo reports: the fallback for other media types has none
MediaInfoId(m) == IF m.media = "unknown" THEN NoId ELSE m.mid

\* the leading hexadecimal digits of the md5 digest of the downloaded bytes
Md5Hex(c) == IF c = 1 THEN <<"1", "2">> ELSE <<"a", "7">>

NoPrefix == <<>>
GenPrefix == <<"g", "e", "n", "_">>

\* the fileUniqueId downloadMessageMedia generates
fileUniqueId(m) ==
  IF MediaInfoId(m) # NoId THEN bigIntToString(MediaInfoId(m))
  ELSE GenPrefix \o Md5Hex(m.bytes)

\* keys for which an upload request was answered with success before now
StoredKeys == {inv[j].key : j \in {k \in DOMAIN inv : inv[k].file}}

\* downloadMessageMedia up to its first await: an animated sticker is skipped
\* getMediaInfo of a document: sticker first, then animation, then by MIME type
DocInfo(d) ==
  LET declared == d.mimeType IN
  IF d.sticker
    THEN [type |-> "sticker",
          subType |-> IF declared = <<"application", "x-tgsticker">> THEN "animated"
                      ELSE IF declared = <<"video", "webm">> THEN "video" ELSE "static",
          mimeType |-> IF declared = NoMime THEN <<"image", "webp">> ELSE declared]
  ELSE IF d.animated \/ (declared = <<"video", "mp4">> /\ d.nosound)
    THEN [type |-> "animation", subType |-> "gif",
          mimeType |-> IF declared = NoMime THEN <<"video", "mp4">> ELSE declared]
  ELSE LET mt == IF declared = NoMime THEN <<"application", "octet-stream">> ELSE declared
       IN [type |-> IF mt[1] \in {"video", "audio"} THEN mt[1]
                    ELSE IF mt[1] = "image" THEN "photo" ELSE "document",
           subType |-> "null", mimeType |-> mt]

NoInfo == [type |-> "none", subType |-> "null", mimeType |-> NoMime]
TgsDoc == [NoDoc EXCEPT !.sticker = TRUE, !.mimeType = <<"application", "x-tgsticker">>]

\* getMediaInfo(message): the document, else the photo, else any other media
getMediaInfo(m) ==
  CASE m.media = "doc" -> DocInfo(m.doc)
    [] m.media = "tgs" -> DocInfo(TgsDoc)
    [] m.media = "photo" ->
         [type |-> "photo", subType |-> "null", mimeType |-> <<"image", "jpeg">>]
    [] m.media = "unknown" ->
         [type |-> "unknown", subType |-> "null", mimeType |-> <<"application", "octet-stream">>]
    [] OTHER -> NoInfo

\* the mimeType downloadMessageMedia passes to uploadMediaToStorage
uploadMimeDeclared(info) == info.mimeType
uploadMime(info) ==
  IF info.type = "sticker"
    THEN IF info.subType = "video" THEN <<"video", "webm">> ELSE <<"image", "webp">>
  ELSE IF info.type = "animation" THEN <<"video", "mp4">>
  ELSE info.mimeType

SkippedMediaNever(m) == FALSE
SkippedMedia(m) ==
  getMediaInfo(m).type = "sticker" /\ getMediaInfo(m).subType = "animated"

\* after `await client.downloadMedia`: it threw (~ok), or the buffer is empty,
\* and downloadMessageMedia returns null; otherwise the upload follows
AfterDownloadUnchecked(ok, m) == IF ok THEN "upload" ELSE "sync"
AfterDownload(ok, m) == IF ok /\ m.bytes # EmptyBytes THEN "upload" ELSE "sync"

\* the stage entered once the profile photo is settled
MediaStageAnyway(m, b) == IF hasMedia(m) /\ ~SkippedMedia(m) THEN "download" ELSE "sync"
MediaStage(m, b) ==
  IF hasMedia(m) /\ telegramClients[b] # NoClient /\ ~SkippedMedia(m)
    THEN "download" ELSE "sync"

\* the stage entered when the handler is invoked
FirstStage(c, m, b) ==
  IF NeedsPhoto(m) /\ ~CacheFresh(c) /\ telegramClients[b] # NoClient
    THEN "photo" ELSE MediaStage(m, b)

\* what syncViaBackendFunction does with a response: it returns, whatever the status
SyncNextPcThrows(status, attempts) == IF status = NetErr THEN "crashed" ELSE "done"
SyncNextPcRetry(status, attempts) ==
  IF ~ResponseOk(status) /\ attempts < maxRetries + 3 THEN "sync" ELSE "done"
SyncNextPc(status, attempts) == "done"

Accepted(i) == updates[inv[i].bot][inv[i].msg].kind = "chat"
Pending == {i \in DOMAIN inv : inv[i].pc \in {"photo", "download", "upload"}}
InFlight == {i \in DOMAIN inv : inv[i].pc = "sync"}

\* api_token of the accounts of the roster: two credentials that differ only
\* after the ":"
api_token(b) == IF b = 1 THEN <<"4", "2", ":", "a">> ELSE <<"4", "2", ":", "b">>

\* String(botToken).split(':')[0]
RECURSIVE SplitHead(_)
SplitHead(str) ==
  IF str = <<>> \/ Head(str) = ":" THEN <<>> ELSE <<Head(str)>> \o SplitHead(Tail(str))

\* the botTokenPrefix the handler of account b is created with
botTokenWhole(b) == api_token(b)
botTokenPrefix(b) == SplitHead(api_token(b))

\* no answer of the asset endpoint stored a media
NoAnswer == [status |-> NetErr, success |-> FALSE]

\* a new invocation of client c's handler on update k, at stage st; look: it
\* looks the chat up in photoCache
NewInvocation(c, k, st, look, pl) ==
  [client |-> c, bot |-> clientBot[c], msg |-> k, pc |-> st,
   photo |-> look /\ CacheFresh(c),
   file |-> FALSE,
   attempts |-> IF st = "sync" THEN 1 ELSE 0,
   resps |-> <<>>, success |-> FALSE,
   at |-> now, reg |-> telegramClients[clientBot[c]] # NoClient,
   fetched |-> st = "photo", downloaded |-> st = "download",
   age |-> IF look THEN EntryAge(c) ELSE 0 - 1,
   lastOk |-> IF look THEN LastOk(c) ELSE 0 - 1,
   photoSrc |-> IF look /\ CacheFresh(c) THEN "cache" ELSE "none",
   photoAt |-> 0 - 1,
   key |-> Null,
   since |-> now,
   mime |-> NoMime, mediaType |-> "none", answer |-> NoAnswer,
   botToken |-> IF clientBot[c] \in Bots THEN botTokenPrefix(clientBot[c]) ELSE <<>>,
   payload |-> pl]

\* the handler's synchronous prefix, up to its first await
Invoke(c, m, k) ==
  LET b == clientBot[c]
      st == IF extractChatId(m) THEN FirstStage(c, m, b) ELSE "done"
      look == extractChatId(m) /\ NeedsPhoto(m)
      pl == IF extractChatId(m) THEN payload(m) ELSE NoPayload
  IN /\ inv' = Append(inv, NewInvocation(c, k, st, look, pl))
     /\ overflow' = IF extractChatId(m) /\ Cardinality(Pending) >= maxQueueSize
                      THEN overflow + 1 ELSE overflow

\* the first handler of src/index.js: no photo and no media, the identifiers go
\* through parseInt, then the await of syncToSupabase
InvokeLegacy(c, m, k) ==
  LET st == IF extractChatId(m) THEN "sync" ELSE "done"
      pl == IF extractChatId(m) THEN chatData(m) ELSE NoPayload
  IN /\ inv' = Append(inv, NewInvocation(c, k, st, FALSE, pl))
     /\ UNCHANGED overflow

\* a new update of the account reaches client c, which is up to date
Arrive(c, m, max) ==
  LET b == clientBot[c] IN
  /\ clientState[c] = "connected" /\ hasHandler[c]
  /\ seen[c] = Len(updates[b]) /\ Len(updates[b]) < max
  /\ updates' = [updates EXCEPT ![b] = Append(@, m)]
  /\ seen' = [seen EXCEPT ![c] = @ + 1]
  /\ Invoke(c, m, Len(updates[b]) + 1)
  /\ UNCHANGED <<registryVars, photoCache, calls, now>>

\* the same arrival at the first handler of src/index.js
ArriveLegacy(c, m, max) ==
  LET b == clientBot[c] IN
  /\ clientState[c] = "connected" /\ hasHandler[c]
  /\ seen[c] = Len(updates[b]) /\ Len(updates[b]) < max
  /\ updates' = [updates EXCEPT ![b] = Append(@, m)]
  /\ seen' = [seen EXCEPT ![c] = @ + 1]
  /\ InvokeLegacy(c, m, Len(updates[b]) + 1)
  /\ UNCHANGED <<registryVars, photoCache, calls, now>>

\* an update another client of the account already got reaches client c
Deliver(c) ==
  LET b == clientBot[c] IN
  /\ clientState[c] = "connected" /\ hasHandler[c]
  /\ seen[c] < Len(updates[b])
  /\ seen' = [seen EXCEPT ![c] = @ + 1]
  /\ Invoke(c, updates[b][seen[c] + 1], seen[c] + 1)
  /\ UNCHANGED <<registryVars, photoCache, calls, updates, now>>

\* since: the reading of the clock when the invocation came to where it is
StartSync(i, rec) == [rec EXCEPT !.pc = "sync", !.attempts = @ + 1, !.since = now]

Advance(i, rec, st) ==
  IF st = "sync" THEN StartSync(i, rec)
  ELSE [rec EXCEPT !.pc = st, !.downloaded = @ \/ st = "download", !.since = now]

\* getProfilePhotoUrl returns (url) or yields null
PhotoReturn(i, url) ==
  /\ i \in DOMAIN inv /\ inv[i].pc = "photo"
  /\ LET r == inv[i]
         m == updates[r.bot][r.msg]
         got == [r EXCEPT !.photo = url,
                          !.photoSrc = IF url THEN "fetch" ELSE "none",
                          !.photoAt = IF url THEN now ELSE 0 - 1]
     IN /\ photoCache' = [photoCache EXCEPT ![r.client] = StoredEntry(url, now)]
        /\ inv' = [inv EXCEPT ![i] = Advance(i, got, MediaStage(m, r.bot))]
  /\ UNCHANGED <<registryVars, seen, updates, calls, now, overflow>>

\* client.downloadMedia returns the bytes of the message (ok) or throws
DownloadReturn(i, ok) ==
  /\ i \in DOMAIN inv /\ inv[i].pc = "download"
  /\ LET m == updates[inv[i].bot][inv[i].msg]
         up == [inv[i] EXCEPT !.key = fileUniqueId(m),
                              !.mime = uploadMime(getMediaInfo(m)),
                              !.mediaType = getMediaInfo(m).type]
     IN inv' = [inv EXCEPT ![i] = IF AfterDownload(ok, m) = "upload"
                                        THEN Advance(i, up, "upload")
                                        ELSE Advance(i, @, "sync")]
  /\ UNCHANGED <<registryVars, photoCache, seen, updates, calls, now, overflow>>

\* the answer of the asset endpoint uploadMediaToStorage takes for a stored media:
\* response.ok and result.success
UploadAcceptedAnyOk(status, success) == ResponseOk(status)
UploadAccepted(status, success) == ResponseOk(status) /\ success

\* the asset endpoint answers the upload (NetErr: the fetch rejects):
\* uploadMediaToStorage returns the key or null, so mediaResult holds the key
\* and the answer that stored it, or is null
UploadReturn(i, status, success) ==
  /\ i \in DOMAIN inv /\ inv[i].pc = "upload"
  /\ LET ok == UploadAccepted(status, success)
     IN inv' = [inv EXCEPT ![i] =
                  StartSync(i, [@ EXCEPT !.file = ok, !.key = IF ok THEN @ ELSE Null,
                                         !.answer = IF ok THEN [status |-> status, success |-> success]
                                                          ELSE NoAnswer,
                                         !.mime = NoMime, !.mediaType = "none"])]
  /\ UNCHANGED <<registryVars, photoCache, seen, updates, calls, now, overflow>>

\* the ingestion fetch settles with a status (NetErr: it rejects)
SyncReturn(i, status) ==
  /\ i \in DOMAIN inv /\ inv[i].pc = "sync"
  /\ LET nxt == SyncNextPc(status, inv[i].attempts)
         r == [inv[i] EXCEPT !.resps = Append(@, status), !.success = ResponseOk(status)]
     IN inv' = [inv EXCEPT ![i] = Advance(i, r, nxt)]
  /\ UNCHANGED <<registryVars, photoCache, seen, updates, calls, now, overflow>>

\* ------------------------------------------------- connectBot, disconnectBot
FreeCall == CHOOSE t \in CallIds : calls[t].pc = "idle" /\ \A u \in CallIds : calls[u].pc = "idle" => t <= u
FreeClient == CHOOSE c \in Clients : clientState[c] = "free" /\ \A d \in Clients : clientState[d] = "free" => c <= d

\* telegramClients.has(botId)
AlreadyConnectedNever(reg, b) == FALSE
AlreadyConnected(reg, b) == reg[b] # NoClient

\* connectBot(bot) with a token, up to `await client.start`
ConnectBegin(b) ==
  /\ \E t \in CallIds : calls[t].pc = "idle"
  /\ ~AlreadyConnected(telegramClients, b)
  /\ \E c \in Clients : clientState[c] = "free"
  /\ clientState' = [clientState EXCEPT ![FreeClient] = "starting"]
  /\ clientBot' = [clientBot EXCEPT ![FreeClient] = b]
  /\ calls' = [calls EXCEPT ![FreeCall] = Call("connect", "start", b, FreeClient)]
  /\ UNCHANGED <<telegramClients, hasHandler, photoCache, seen, updates, inv, now, overflow>>

\* connectBot(bot) for an account already in the registry: returns true at once
ConnectPresent(b) ==
  /\ AlreadyConnected(telegramClients, b)
  /\ UNCHANGED vars

\* the accounts of the roster still to connect that have no entry in reg
Missing(call, reg) == {b \in call.todo : ~AlreadyConnected(reg, b)}
MinOf(S) == CHOOSE x \in S : \A y \in S : x <= y
FreeIn(cs) == MinOf({c \in Clients : cs[c] = "free"})

\* loadAndConnectBots' loop from where connectBot returned: accounts with an
\* entry are passed over, the next one gets a client and awaits client.start;
\* a call that is not a reload has nothing left to do
CanGoOn(call, reg, cs) == Missing(call, reg) = {} \/ \E c \in Clients : cs[c] = "free"
ConnectNextUntilFailure(call, reg, cs) ==
  IF Missing(call, reg) = {} \/ call.failed # {} THEN IdleCall
  ELSE [call EXCEPT !.pc = "start", !.bot = MinOf(Missing(call, reg)), !.client = FreeIn(cs),
                    !.todo = {b \in call.todo : b > MinOf(Missing(call, reg))},
                    !.passed = @ \cup {b \in call.todo : b < MinOf(Missing(call, reg))}]
ConnectNext(call, reg, cs) ==
  IF Missing(call, reg) = {} THEN IdleCall
  ELSE [call EXCEPT !.pc = "start", !.bot = MinOf(Missing(call, reg)), !.client = FreeIn(cs),
                    !.todo = {b \in call.todo : b > MinOf(Missing(call, reg))},
                    !.passed = @ \cup {b \in call.todo : b < MinOf(Missing(call, reg))}]

\* the client and the account a call has just begun to connect, if any
Begun(old, new, cs) ==
  IF new.pc = "start" /\ new.client # old.client
    THEN [cs EXCEPT ![new.client] = "starting"] ELSE cs
BegunBot(old, new, cb) ==
  IF new.pc = "start" /\ new.client # old.client
    THEN [cb EXCEPT ![new.client] = new.bot] ELSE cb

\* client.start settles
StartReturn(t, ok) ==
  /\ calls[t].pc = "start"
  /\ LET cs == [clientState EXCEPT ![calls[t].client] = IF ok THEN "connected" ELSE "closed"]
         nxt == IF ok THEN [calls[t] EXCEPT !.pc = "getMe"]
                      ELSE ConnectNext([calls[t] EXCEPT !.failed = @ \cup {calls[t].bot}],
                                       telegramClients, cs)
     IN /\ ok \/ CanGoOn(calls[t], telegramClients, cs)
        /\ clientState' = Begun(calls[t], nxt, cs)
        /\ clientBot' = BegunBot(calls[t], nxt, clientBot)
        /\ calls' = [calls EXCEPT ![t] = nxt]
  /\ UNCHANGED <<telegramClients, hasHandler, photoCache, seen, updates, inv, now, overflow>>

\* client.getMe settles; on success the handler is added and the entry stored
GetMeReturn(t, ok) ==
  /\ calls[t].pc = "getMe"
  /\ LET c == calls[t].client
         b == calls[t].bot
         reg == IF ok THEN [telegramClients EXCEPT ![b] = c] ELSE telegramClients
         nxt == ConnectNext([calls[t] EXCEPT !.failed = IF ok THEN @ ELSE @ \cup {b}],
                            reg, clientState)
     IN /\ CanGoOn(calls[t], reg, clientState)
        /\ IF ok
             THEN /\ hasHandler' = [hasHandler EXCEPT ![c] = TRUE]
                  /\ seen' = [seen EXCEPT ![c] = Len(updates[b])]
             ELSE UNCHANGED <<hasHandler, seen>>
        /\ telegramClients' = reg
        /\ clientState' = Begun(calls[t], nxt, clientState)
        /\ clientBot' = BegunBot(calls[t], nxt, clientBot)
        /\ calls' = [calls EXCEPT ![t] = nxt]
  /\ UNCHANGED <<photoCache, updates, inv, now, overflow>>

\* disconnectBot(botId) with an entry, up to `await client.disconnect`
DisconnectBegin(b) ==
  /\ \E t \in CallIds : calls[t].pc = "idle"
  /\ telegramClients[b] # NoClient
  /\ calls' = [calls EXCEPT ![FreeCall] = Call("disconnect", "disconnect", b, telegramClients[b])]
  /\ UNCHANGED <<registryVars, photoCache, seen, updates, inv, now, overflow>>

\* client.disconnect settles: the entry of the account is deleted, or it threw
DisconnectReturn(t, ok) ==
  /\ calls[t].pc = "disconnect"
  /\ IF ok
       THEN /\ clientState' = [clientState EXCEPT ![calls[t].client] = "closed"]
            /\ telegramClients' = [telegramClients EXCEPT ![calls[t].bot] = NoClient]
       ELSE UNCHANGED <<clientState, telegramClients>>
  /\ calls' = [calls EXCEPT ![t] = IdleCall]
  /\ UNCHANGED <<clientBot, hasHandler, photoCache, seen, updates, inv, now, overflow>>

\* ------------------------------------------------- POST /reload-bots, POST /reload
\* POST /reload-bots whose x-sync-secret is not the configured one: 401
ReloadDenied ==
  UNCHANGED vars

\* `for (const [id] of telegramClients) await disconnectBot(id)` from the entry
\* after account `after` (entries in the order of the accounts), then
\* loadAndConnectBots up to the await of its fetch
ReloadLoop(call, after, reg) ==
  LET left == {b \in Bots : reg[b] # NoClient /\ b > after}
  IN IF left # {}
       THEN [call EXCEPT !.pc = "reloadDisconnect", !.bot = MinOf(left), !.client = reg[MinOf(left)]]
       ELSE [call EXCEPT !.pc = "reloadFetch", !.bot = 0, !.client = NoClient]

\* a reload request that is let in: POST /reload-bots with the secret, or POST
\* /reload, which does not look at the header (secret: what the request carried)
ReloadBegin(ep, secret) ==
  /\ ep = "reload-bots" => secret
  /\ \E t \in CallIds : calls[t].pc = "idle"
  /\ calls' = [calls EXCEPT ![FreeCall] =
                 ReloadLoop([Call(ep, "idle", 0, NoClient) EXCEPT
                               !.auth = secret,
                               !.before = {telegramClients[b] : b \in Bots} \ {NoClient}],
                            0, telegramClients)]
  /\ UNCHANGED <<registryVars, photoCache, seen, updates, inv, now, overflow>>

\* client.disconnect of the reload settles: the entry is deleted, or it threw
ReloadDisconnectReturn(t, ok) ==
  /\ calls[t].pc = "reloadDisconnect"
  /\ LET reg == IF ok THEN [telegramClients EXCEPT ![calls[t].bot] = NoClient] ELSE telegramClients
     IN /\ telegramClients' = reg
        /\ clientState' = IF ok THEN [clientState EXCEPT ![calls[t].client] = "closed"] ELSE clientState
        /\ calls' = [calls EXCEPT ![t] = ReloadLoop(calls[t], calls[t].bot, reg)]
  /\ UNCHANGED <<clientBot, hasHandler, photoCache, seen, updates, inv, now, overflow>>

\* the fetch of the roster settles: not ok, or the accounts of `bots`
ReloadFetchReturn(t, ok, roster) ==
  /\ calls[t].pc = "reloadFetch"
  /\ LET call == [calls[t] EXCEPT !.todo = IF ok THEN roster ELSE {}]
         nxt == ConnectNext(call, telegramClients, clientState)
     IN /\ CanGoOn(call, telegramClients, clientState)
        /\ clientState' = Begun(calls[t], nxt, clientState)
        /\ clientBot' = BegunBot(calls[t], nxt, clientBot)
        /\ calls' = [calls EXCEPT ![t] = nxt]
  /\ UNCHANGED <<telegramClients, hasHandler, photoCache, seen, updates, inv, now, overflow>>

\* ------------------------------------------------- SIGINT, SIGTERM
\* process.exit(0) was reached
Exited == \E t \in CallIds : calls[t].pc = "exited"

\* `for (const [botId] of telegramClients) await disconnectBot(botId)` from the
\* entry after account `after`, then process.exit(0)
ShutdownLoop(call, after, reg) ==
  LET left == {b \in Bots : reg[b] # NoClient /\ b > after}
  IN IF left # {}
       THEN [call EXCEPT !.pc = "shutdownDisconnect", !.bot = MinOf(left),
                         !.client = reg[MinOf(left)], !.tried = @ \cup {reg[MinOf(left)]}]
       ELSE [call EXCEPT !.pc = "exited", !.bot = 0, !.client = NoClient]

\* the signal arrives
ShutdownBegin ==
  /\ ~Exited
  /\ \A t \in CallIds : calls[t].ep # "shutdown"
  /\ \E t \in CallIds : calls[t].pc = "idle"
  /\ calls' = [calls EXCEPT ![FreeCall] =
                 ShutdownLoop(Call("shutdown", "idle", 0, NoClient), 0, telegramClients)]
  /\ UNCHANGED <<registryVars, photoCache, seen, updates, inv, now, overflow>>

\* client.disconnect of the shutdown settles: the entry is deleted, or it threw
ShutdownDisconnectReturn(t, ok) ==
  /\ calls[t].pc = "shutdownDisconnect"
  /\ LET reg == IF ok THEN [telegramClients EXCEPT ![calls[t].bot] = NoClient] ELSE telegramClients
     IN /\ telegramClients' = reg
        /\ clientState' = IF ok THEN [clientState EXCEPT ![calls[t].client] = "closed"] ELSE clientState
        /\ calls' = [calls EXCEPT ![t] = ShutdownLoop(calls[t], calls[t].bot, reg)]
  /\ UNCHANGED <<clientBot, hasHandler, photoCache, seen, updates, inv, now, overflow>>

\* ------------------------------------------------- POST /send, /edit, /delete
\* the account has no entry: 404, nothing is invoked
SendAbsent(b) ==
  /\ telegramClients[b] = NoClient
  /\ UNCHANGED vars

\* the account has an entry: the operation is invoked on the entry's client
SendBegin(b) ==
  /\ \E t \in CallIds : calls[t].pc = "idle"
  /\ telegramClients[b] # NoClient
  /\ calls' = [calls EXCEPT ![FreeCall] = Call("send", "send", b, telegramClients[b])]
  /\ UNCHANGED <<registryVars, photoCache, seen, updates, inv, now, overflow>>

\* the operation settles: a success response, or the catch answers 500
SendReturn(t, ok) ==
  /\ calls[t].pc = "send"
  /\ calls' = [calls EXCEPT ![t] = IdleCall]
  /\ UNCHANGED <<registryVars, photoCache, seen, updates, inv, now, overflow>>

\* ------------------------------------------------- the clock
Tick ==
  /\ now < MaxTime
  /\ now' = now + 1
  /\ UNCHANGED <<registryVars, photoCache, seen, updates, calls, inv, overflow>>

\* ------------------------------------------------- the protocol client's session
SessionDrop(c) ==
  /\ clientState[c] = "connected"
  /\ clientState' = [clientState EXCEPT ![c] = "down"]
  /\ UNCHANGED <<telegramClients, clientBot, hasHandler, photoCache, seen, updates, calls, inv, now, overflow>>

\* the client was constructed with autoReconnect: true
ReconnectBegin(c) ==
  /\ AutoReconnect
  /\ clientState[c] = "down"
  /\ clientState' = [clientState EXCEPT ![c] = "reconnecting"]
  /\ UNCHANGED <<telegramClients, clientBot, hasHandler, photoCache, seen, updates, calls, inv, now, overflow>>

ReconnectReturn(c, ok) ==
  /\ clientState[c] = "reconnecting"
  /\ clientState' = [clientState EXCEPT ![c] = IF ok THEN "connected" ELSE "down"]
  /\ UNCHANGED <<telegramClients, clientBot, hasHandler, photoCache, seen, updates, calls, inv, now, overflow>>

\* ------------------------------------------------------------ specifications
Init ==
  /\ telegramClients = [b \in Bots |-> NoClient]
  /\ clientState = [c \in Clients |-> "free"]
  /\ clientBot = [c \in Clients |-> 0]
  /\ hasHandler = [c \in Clients |-> FALSE]
  /\ photoCache = [c \in Clients |-> NoEntry]
  /\ seen = [c \in Clients |-> 0]
  /\ updates = [b \in Bots |-> <<>>]
  /\ calls = [t \in CallIds |-> IdleCall]
  /\ inv = <<>>
  /\ now = 0
  /\ overflow = 0

\* the awaited calls of invocation i settle
Returns(i) ==
  \/ \E url \in BOOLEAN : PhotoReturn(i, url)
  \/ \E ok \in BOOLEAN : DownloadReturn(i, ok)
  \/ \E s \in CacheStatuses, ok \in BOOLEAN : UploadReturn(i, s, ok)
  \/ \E s \in Statuses : SyncReturn(i, s)

Next ==
  \/ \E b \in Bots : ConnectBegin(b)
  \/ \E b \in Bots : ConnectPresent(b)
  \/ \E t \in CallIds, ok \in BOOLEAN : StartReturn(t, ok)
  \/ \E t \in CallIds, ok \in BOOLEAN : GetMeReturn(t, ok)
  \/ \E b \in Bots : DisconnectBegin(b)
  \/ \E t \in CallIds, ok \in BOOLEAN : DisconnectReturn(t, ok)
  \/ \E c \in Clients : SessionDrop(c)
  \/ \E c \in Clients : ReconnectBegin(c)
  \/ \E c \in Clients, ok \in BOOLEAN : ReconnectReturn(c, ok)
  \/ \E c \in Clients, m \in RegistryMsgs : Arrive(c, m, MaxMsgs)
  \/ \E c \in Clients : Deliver(c)
  \/ \E i \in DOMAIN inv, s \in Statuses : SyncReturn(i, s)

Spec == Init /\ [][Next]_vars

\* the state after start(): the roster's account connected, its handler added
InitDelivery ==
  /\ telegramClients = [b \in Bots |-> IF b = 1 THEN 1 ELSE NoClient]
  /\ clientState = [c \in Clients |-> IF c = 1 THEN "connected" ELSE "free"]
  /\ clientBot = [c \in Clients |-> IF c = 1 THEN 1 ELSE 0]
  /\ hasHandler = [c \in Clients |-> c = 1]
  /\ photoCache = [c \in Clients |-> NoEntry]
  /\ seen = [c \in Clients |-> 0]
  /\ updates = [b \in Bots |-> <<>>]
  /\ calls = [t \in CallIds |-> IdleCall]
  /\ inv = <<>>
  /\ now = 0
  /\ overflow = 0

\* both accounts of the roster connected, each with its handler
InitPair ==
  /\ telegramClients = [b \in Bots |-> b]
  /\ clientState = [c \in Clients |-> IF c \in Bots THEN "connected" ELSE "free"]
  /\ clientBot = [c \in Clients |-> IF c \in Bots THEN c ELSE 0]
  /\ hasHandler = [c \in Clients |-> c \in Bots]
  /\ photoCache = [c \in Clients |-> NoEntry]
  /\ seen = [c \in Clients |-> 0]
  /\ updates = [b \in Bots |-> <<>>]
  /\ calls = [t \in CallIds |-> IdleCall]
  /\ inv = <<>>
  /\ now = 0
  /\ overflow = 0

NextDelivery ==
  \/ \E m \in LoadMsgs : Arrive(1, m, MaxLoad)
  \/ \E i \in DOMAIN inv, ok \in BOOLEAN : DownloadReturn(i, ok)
  \/ \E i \in DOMAIN inv, s \in CacheStatuses, ok \in BOOLEAN : UploadReturn(i, s, ok)
  \/ \E i \in DOMAIN inv, s \in Statuses : SyncReturn(i, s)

SpecDelivery == InitDelivery /\ [][NextDelivery]_vars

\* the account's handler over time: either the roster's account is registered, or
\* its entry was deleted by a disconnectBot while a second client of the account,
\* left by two overlapping connectBot calls, still carries a handler
InitCache ==
  \E reg \in BOOLEAN :
    /\ telegramClients = [b \in Bots |-> IF b = 1 /\ reg THEN 1 ELSE NoClient]
    /\ clientState = [c \in Clients |-> IF c = 1 THEN "connected"
                                         ELSE IF c = 2 /\ ~reg THEN "closed" ELSE "free"]
    /\ clientBot = [c \in Clients |-> IF c = 1 \/ (c = 2 /\ ~reg) THEN 1 ELSE 0]
    /\ hasHandler = [c \in Clients |-> c = 1 \/ (c = 2 /\ ~reg)]
    /\ photoCache = [c \in Clients |-> NoEntry]
    /\ seen = [c \in Clients |-> 0]
    /\ updates = [b \in Bots |-> <<>>]
    /\ calls = [t \in CallIds |-> IdleCall]
    /\ inv = <<>>
    /\ now = 0
    /\ overflow = 0

NextCache ==
  \/ \E m \in CacheMsgs : Arrive(1, m, MaxLookups)
  \/ Tick
  \/ \E i \in DOMAIN inv, url \in BOOLEAN : PhotoReturn(i, url)
  \/ \E i \in DOMAIN inv, s \in CacheStatuses : SyncReturn(i, s)

SpecCache == InitCache /\ [][NextCache]_vars

\* the same handler with room for a lookup after two overlapping fetches
NextCacheRace ==
  \/ \E m \in CacheMsgs : Arrive(1, m, MaxRace)
  \/ Tick
  \/ \E i \in DOMAIN inv, url \in BOOLEAN : PhotoReturn(i, url)
  \/ \E i \in DOMAIN inv, s \in CacheStatuses : SyncReturn(i, s)

SpecCacheRace == InitCache /\ [][NextCacheRace]_vars

\* the account's handler on events that carry media
NextMedia ==
  \/ \E m \in MediaMsgs : Arrive(1, m, MaxMedia)
  \/ \E i \in DOMAIN inv, ok \in BOOLEAN : DownloadReturn(i, ok)
  \/ \E i \in DOMAIN inv, s \in CacheStatuses, ok \in BOOLEAN : UploadReturn(i, s, ok)
  \/ \E i \in DOMAIN inv, s \in CacheStatuses : SyncReturn(i, s)

SpecMedia == InitDelivery /\ [][NextMedia]_vars

\* one connected account whose session may drop and be re-established
NextSession ==
  \/ \E m \in SessionMsgs : Arrive(1, m, MaxEvents)
  \/ SessionDrop(1)
  \/ ReconnectBegin(1)
  \/ \E ok \in BOOLEAN : ReconnectReturn(1, ok)
  \/ \E i \in DOMAIN inv, url \in BOOLEAN : PhotoReturn(i, url)
  \/ \E i \in DOMAIN inv, ok \in BOOLEAN : DownloadReturn(i, ok)
  \/ \E i \in DOMAIN inv, s \in CacheStatuses, ok \in BOOLEAN : UploadReturn(i, s, ok)
  \/ \E i \in DOMAIN inv, s \in Statuses : SyncReturn(i, s)

SpecSession == InitDelivery /\ [][NextSession]_vars

\* identifiers of every size through the handler, in either revision of it
NextIds ==
  \/ \E m \in IdMsgs : Arrive(1, m, MaxIds)
  \/ \E m \in IdMsgs : ArriveLegacy(1, m, MaxIds)
  \/ \E i \in DOMAIN inv, s \in Statuses : SyncReturn(i, s)

SpecIds == InitDelivery /\ [][NextIds]_vars

\* media of every classification through the download and the upload
NextClassify ==
  \/ \E m \in DocMsgs : Arrive(1, m, MaxDocs)
  \/ \E i \in DOMAIN inv, ok \in BOOLEAN : DownloadReturn(i, ok)
  \/ \E i \in DOMAIN inv, s \in CacheStatuses, ok \in BOOLEAN : UploadReturn(i, s, ok)
  \/ \E i \in DOMAIN inv, s \in CacheStatuses : SyncReturn(i, s)

SpecClassify == InitDelivery /\ [][NextClassify]_vars

\* media through the download and the upload, of an account with and without
\* its registry entry
NextUpload ==
  \/ \E m \in UploadMsgs : Arrive(1, m, MaxUploads)
  \/ \E i \in DOMAIN inv, ok \in BOOLEAN : DownloadReturn(i, ok)
  \/ \E i \in DOMAIN inv, s \in Statuses, ok \in BOOLEAN : UploadReturn(i, s, ok)
  \/ \E i \in DOMAIN inv, s \in CacheStatuses : SyncReturn(i, s)

SpecUpload == InitCache /\ [][NextUpload]_vars

\* events in progress while the account is disconnected and connected again
NextDetach ==
  \/ \E m \in DetachMsgs : Arrive(1, m, MaxDetach)
  \/ \E i \in DOMAIN inv, url \in BOOLEAN : PhotoReturn(i, url)
  \/ \E i \in DOMAIN inv, ok \in BOOLEAN : DownloadReturn(i, ok)
  \/ \E i \in DOMAIN inv, s \in CacheStatuses, ok \in BOOLEAN : UploadReturn(i, s, ok)
  \/ \E i \in DOMAIN inv, s \in CacheStatuses : SyncReturn(i, s)
  \/ DisconnectBegin(1)
  \/ \E t \in CallIds, ok \in BOOLEAN : DisconnectReturn(t, ok)
  \/ ConnectBegin(1)
  \/ \E t \in CallIds, ok \in BOOLEAN : StartReturn(t, ok)
  \/ \E t \in CallIds, ok \in BOOLEAN : GetMeReturn(t, ok)

SpecDetach == InitDelivery /\ [][NextDetach]_vars

\* the same events at two accounts whose credentials differ after the ":"
NextTokens ==
  \/ \E c \in Bots, m \in TokenMsgs : Arrive(c, m, MaxTokens)
  \/ \E i \in DOMAIN inv, ok \in BOOLEAN : DownloadReturn(i, ok)
  \/ \E i \in DOMAIN inv, s \in CacheStatuses, ok \in BOOLEAN : UploadReturn(i, s, ok)
  \/ \E i \in DOMAIN inv, s \in CacheStatuses : SyncReturn(i, s)

SpecTokens == InitPair /\ [][NextTokens]_vars

\* outgoing messages whose calls to the backend take time, or never settle
NextTimed ==
  \/ \E m \in TimedMsgs : Arrive(1, m, MaxTimed)
  \/ Tick
  \/ \E i \in DOMAIN inv, ok \in BOOLEAN : DownloadReturn(i, ok)
  \/ \E i \in DOMAIN inv, s \in CacheStatuses, ok \in BOOLEAN : UploadReturn(i, s, ok)
  \/ \E i \in DOMAIN inv, s \in Statuses : SyncReturn(i, s)

SpecTimed == InitDelivery /\ [][NextTimed]_vars

\* reloads of the roster, with and without the secret
NextReload ==
  \/ ReloadDenied
  \/ \E ep \in Endpoints, secret \in BOOLEAN : ReloadBegin(ep, secret)
  \/ \E t \in CallIds, ok \in BOOLEAN : ReloadDisconnectReturn(t, ok)
  \/ \E t \in CallIds, ok \in BOOLEAN, roster \in SUBSET Bots : ReloadFetchReturn(t, ok, roster)
  \/ \E t \in CallIds, ok \in BOOLEAN : StartReturn(t, ok)
  \/ \E t \in CallIds, ok \in BOOLEAN : GetMeReturn(t, ok)

SpecReload == InitDelivery /\ [][NextReload]_vars

\* reloads one after the other, from an empty registry
NextRoster ==
  \/ (\A t \in CallIds : calls[t].pc = "idle")
       /\ \E ep \in Endpoints, secret \in BOOLEAN : ReloadBegin(ep, secret)
  \/ \E t \in CallIds, ok \in BOOLEAN : ReloadDisconnectReturn(t, ok)
  \/ \E t \in CallIds, ok \in BOOLEAN, roster \in SUBSET Bots : ReloadFetchReturn(t, ok, roster)
  \/ \E t \in CallIds, ok \in BOOLEAN : StartReturn(t, ok)
  \/ \E t \in CallIds, ok \in BOOLEAN : GetMeReturn(t, ok)

SpecRoster == Init /\ [][NextRoster]_vars

\* connects in progress when the process is told to stop
NextShutdown ==
  \/ ~Exited /\ \E b \in Bots : ConnectBegin(b)
  \/ ~Exited /\ \E t \in CallIds, ok \in BOOLEAN : StartReturn(t, ok)
  \/ ~Exited /\ \E t \in CallIds, ok \in BOOLEAN : GetMeReturn(t, ok)
  \/ ~Exited /\ \E b \in Bots : DisconnectBegin(b)
  \/ ~Exited /\ \E t \in CallIds, ok \in BOOLEAN : DisconnectReturn(t, ok)
  \/ ShutdownBegin
  \/ ~Exited /\ \E t \in CallIds, ok \in BOOLEAN : ShutdownDisconnectReturn(t, ok)

SpecShutdown == InitDelivery /\ [][NextShutdown]_vars

\* the same account with requests to send, edit or delete
NextOutbound ==
  \/ \E m \in SessionMsgs : Arrive(1, m, MaxEvents)
  \/ SessionDrop(1)
  \/ ReconnectBegin(1)
  \/ \E ok \in BOOLEAN : ReconnectReturn(1, ok)
  \/ \E i \in DOMAIN inv, url \in BOOLEAN : PhotoReturn(i, url)
  \/ \E i \in DOMAIN inv, ok \in BOOLEAN : DownloadReturn(i, ok)
  \/ \E i \in DOMAIN inv, s \in CacheStatuses, ok \in BOOLEAN : UploadReturn(i, s, ok)
  \/ \E i \in DOMAIN inv, s \in Statuses : SyncReturn(i, s)
  \/ \E b \in Bots : SendAbsent(b)
  \/ \E b \in Bots : SendBegin(b)
  \/ \E t \in CallIds, ok \in BOOLEAN : SendReturn(t, ok)

SpecOutbound == InitDelivery /\ [][NextOutbound]_vars

\* every awaited call settles, and the client library acts on a dropped session
FairSpecSession ==
  /\ SpecSession
  /\ \A i \in 1..MaxEvents : WF_vars(i \in DOMAIN inv /\ Returns(i))
  /\ \A c \in Clients : WF_vars(ReconnectBegin(c))

\* ------------------------------------------------------ vocabulary of the claims
Last(s) == s[Len(s)]
Retryable(s) == s = NetErr \/ s >= 500
Rejected(s) == s >= 400 /\ s <= 499
Done(i) == inv[i].pc = "done"
Started(i) == inv[i].attempts >= 1
Failures(i) == {k \in DOMAIN inv[i].resps : ~ResponseOk(inv[i].resps[k])}

\* the disposition of a finished invocation, in the words of the design
Outcome(i) ==
  IF ~Done(i) \/ ~Accepted(i) THEN "none"
  ELSE IF inv[i].success THEN "Delivered"
  ELSE IF Rejected(Last(inv[i].resps)) THEN "RejectedByBackend"
  ELSE "Exhausted"

Terminal == {"Delivered", "RejectedByBackend", "Exhausted", "Dropped"}
DroppedSet == {i \in DOMAIN inv : Outcome(i) = "Dropped"}

PendIdx(i) == i \in Pending
PendingSeq == SelectSeq([i \in 1..Len(inv) |-> i], PendIdx)

LiveClients(b) ==
  {c \in Clients : clientBot[c] = b /\ clientState[c] \in {"connected", "down", "reconnecting"}}

\* ------------------------------------------------------------------ claims

\* C1: the events accepted and not yet handed to a delivery call never number
\* more than maxQueueSize, and as many events are Dropped as arrived on a full queue.
C1_QueueBounded ==
  /\ Cardinality(Pending) <= maxQueueSize
  /\ Cardinality(DroppedSet) = overflow

\* C2: at most maxConcurrent calls to the ingestion endpoint are in flight.
C2_Ceiling == Cardinality(InFlight) <= maxConcurrent

\* C3: every account has at most one client that was started and is not yet
\* disconnected.
C3_OneLiveClient == \A b \in Bots : Cardinality(LiveClients(b)) <= 1

\* C4: a delivery is finished after a retryable failure only once maxRetries
\* re-attempts were made, and one that ends with a success was re-attempted once
\* per failure and is Delivered.
C4_RetriedUntilDelivered ==
  \A i \in DOMAIN inv : (Done(i) /\ Accepted(i)) =>
    /\ Retryable(Last(inv[i].resps)) => inv[i].attempts = 1 + maxRetries
    /\ ResponseOk(Last(inv[i].resps)) =>
         (Outcome(i) = "Delivered" /\ inv[i].attempts - 1 = Cardinality(Failures(i)))

\* C5: a delivery answered with a 4xx status made exactly one call, is finished,
\* was not re-attempted and is RejectedByBackend.
C5_NoRetryOn4xx ==
  \A i \in DOMAIN inv : \A k \in DOMAIN inv[i].resps :
    Rejected(inv[i].resps[k]) =>
      /\ k = 1 /\ Len(inv[i].resps) = 1
      /\ inv[i].attempts = 1
      /\ Done(i) /\ ~inv[i].success
      /\ Outcome(i) = "RejectedByBackend"

C5_Witness ==
  \E i \in DOMAIN inv : Done(i) /\ inv[i].resps = <<400>> /\ inv[i].file

C7_FifoDispatch ==
  \A i, j \in DOMAIN inv :
    (i < j /\ inv[i].bot = inv[j].bot /\ Accepted(i) /\ Accepted(j) /\ Started(j))
      => Started(i)

\* C8: no two ingestion calls are in flight for the same event of an account.
C8_NoConcurrentDuplicate ==
  \A i, j \in InFlight :
    (inv[i].bot = inv[j].bot /\ inv[i].msg = inv[j].msg) => i = j

C10_EvictOldest ==
  [][(Len(inv') = Len(inv) + 1 /\ Len(PendingSeq) >= maxQueueSize)
       => /\ PendingSeq' = Append(Tail(PendingSeq), Len(inv'))
          /\ Cardinality(DroppedSet') = Cardinality(DroppedSet) + 1
          /\ (Len(inv') = maxQueueSize + 1 /\ \A i \in DOMAIN inv' : inv'[i].attempts = 0)
               => PendingSeq' = [k \in 1..maxQueueSize |-> k + 1]]_vars

\* the lookups of the claims about the photo cache: accepted incoming events
\* from a sender that is not a bot
Lookups == {i \in DOMAIN inv : Accepted(i) /\ NeedsPhoto(updates[inv[i].bot][inv[i].msg])}

\* C11: an incoming event from a sender that is not a bot, on a registered
\* account, uses the cached photo and invokes no fetch when a fetch for the chat
\* returned a photo less than one hour before, and invokes the fetch when the
\* last fetch that returned a photo is one hour old or more.
C11_FreshHitStaleFetch ==
  \A i \in Lookups : inv[i].reg =>
    /\ (inv[i].lastOk >= 0 /\ inv[i].at - inv[i].lastOk < FreshWindow)
         => (~inv[i].fetched /\ inv[i].photoSrc = "cache")
    /\ (inv[i].lastOk >= 0 /\ inv[i].at - inv[i].lastOk >= FreshWindow)
         => inv[i].fetched

\* C12: the photo of a delivered event is a cached value younger than one hour,
\* a value fetched by the same invocation, or absent; an entry one hour old or
\* more is never attached, also when the account is not registered at the lookup
\* or the fetch yields nothing.
C12_NeverStale ==
  \A i \in DOMAIN inv : (Done(i) /\ inv[i].success) =>
    /\ inv[i].photo = (inv[i].photoSrc # "none")
    /\ inv[i].photoSrc = "cache" => (inv[i].age >= 0 /\ inv[i].age < FreshWindow)
    /\ inv[i].photoSrc = "fetch" => (inv[i].fetched /\ inv[i].photoAt >= inv[i].at)
    /\ (inv[i].age >= FreshWindow /\ (~inv[i].reg \/ inv[i].photoAt < 0)) => ~inv[i].photo

C12_Witness ==
  \E i, j \in DOMAIN inv :
    /\ Done(i) /\ inv[i].success /\ inv[i].photoSrc = "fetch"
    /\ Done(j) /\ inv[j].success /\ inv[j].age >= FreshWindow /\ inv[j].fetched /\ ~inv[j].photo

\* C13: every entry of the photo cache holds a photo; a fetch that yields no
\* photo leaves no entry for the chat; and an incoming event on a registered
\* account that finds no entry invokes the fetch.
C13_NoNullEntry ==
  /\ [](\A c \in Clients : photoCache[c].present => photoCache[c].url)
  /\ [](\A i \in Lookups : (inv[i].reg /\ inv[i].age < 0) => inv[i].fetched)
  /\ [][\A i \in DOMAIN inv :
         (inv[i].pc = "photo" /\ inv'[i].pc # "photo" /\ ~inv'[i].photo)
           => ~photoCache'[inv[i].client].present]_vars

C13_Witness ==
  \E i, j \in DOMAIN inv :
    /\ i < j /\ inv[i].fetched /\ inv[i].pc # "photo" /\ ~inv[i].photo
    /\ inv[j].fetched /\ inv[j].age < 0 /\ inv[j].at > inv[i].at

\* C18: an event with no message, or whose peer has no user, chat or channel
\* identifier, ends at once: no ingestion call, no retry, no fetch of the
\* profile photo and no download of its media.
C18_DroppedSilently ==
  \A i \in DOMAIN inv : ~Accepted(i) =>
    /\ Done(i) /\ inv[i].attempts = 0 /\ inv[i].resps = <<>>
    /\ ~inv[i].fetched /\ ~inv[i].downloaded
    /\ ~inv[i].photo /\ ~inv[i].file

C18_Witness ==
  \E i, j \in DOMAIN inv :
    /\ updates[inv[i].bot][inv[i].msg] = EmptyEvent
    /\ updates[inv[j].bot][inv[j].msg] = NoPeerPhoto /\ inv[j].reg

\* the invocations that resolved their media to a key
Keyed == {i \in DOMAIN inv : inv[i].key # Null}
Media(i) == updates[inv[i].bot][inv[i].msg]
IsDerived(k) == Len(k) >= 4 /\ SubSeq(k, 1, 4) = <<"g", "e", "n", "_">>

\* C14: two media references whose downloaded bytes are identical resolve to the
\* same fileUniqueId, in either order and with or without a protocol identifier.
C14_SameBytesSameKey ==
  \A i, j \in Keyed : Media(i).bytes = Media(j).bytes => inv[i].key = inv[j].key

\* C15: a key derived from the content hash never equals a key taken from a
\* protocol identifier, and the derived key is used exactly when the reference
\* has no protocol identifier.
C15_KeySpacesDisjoint ==
  /\ \A m, n \in MediaMsgs :
       (MediaInfoId(m) = NoId /\ MediaInfoId(n) # NoId) => fileUniqueId(m) # fileUniqueId(n)
  /\ \A i \in Keyed : IsDerived(inv[i].key) <=> (MediaInfoId(Media(i)) = NoId)
  /\ \A i, j \in Keyed : (IsDerived(inv[i].key) /\ ~IsDerived(inv[j].key)) => inv[i].key # inv[j].key

C15_Witness ==
  \E i, j \in Keyed :
    /\ Media(i).media = "unknown" /\ Media(i).bytes = 1 /\ IsDerived(inv[i].key)
    /\ Media(j).media = "photo" /\ Media(j).mid = 12 /\ inv[j].key = <<"1", "2">>

\* the step in which invocation i sends the bytes of its media for upload
SendsBytes(i) == i \in DOMAIN inv /\ inv[i].pc = "download" /\ inv'[i].pc = "upload"

\* C16: the backend is asked about the key before the bytes of a media item are
\* sent for upload, so that no bytes are sent for a key the backend has
\* reported as stored.
C16_AskBeforeUpload ==
  [][\A i \in DOMAIN inv : SendsBytes(i) => inv'[i].key \notin StoredKeys]_vars

\* the invocations that call the protocol client in a step: a fetch of the
\* profile photo or a download begins
ClientUse(i) ==
  /\ inv'[i].pc \in {"photo", "download"}
  /\ (i \in DOMAIN inv => inv[i].pc # inv'[i].pc)

\* C17: a fetch of the profile photo, a download of media and an outbound
\* send, edit or delete call the protocol client only while the session of the
\* account's entry is connected.
C17_OnlyWhenConnected ==
  [][/\ \A i \in DOMAIN inv' :
          ClientUse(i) => clientState[telegramClients[inv'[i].bot]] = "connected"
     /\ \A t \in CallIds :
          (calls'[t].pc = "send" /\ calls[t].pc # "send")
            => clientState[calls'[t].client] = "connected"]_vars

\* C19: chatId and messageId of every payload are strings that hold the exact
\* decimal digits of the event's identifiers, whatever their size: no
\* identifier is turned into a Number on the way.
C19_ExactDecimal ==
  \A i \in DOMAIN inv : Accepted(i) =>
    /\ inv[i].payload.chatId = Str(DecStr(Media(i).peer))
    /\ inv[i].payload.messageId = Str(DecStr(Media(i).id))

\* C20: a reload acts only for a request that carried the configured
\* x-sync-secret: every step of a reload that changes a session or an entry of
\* the registry belongs to such a request.
C20_ReloadNeedsSecret ==
  [][\A t \in CallIds :
       (/\ calls[t].ep \in Endpoints /\ calls'[t] # calls[t]
        /\ <<clientState, telegramClients>>' # <<clientState, telegramClients>>)
         => calls[t].auth]_vars

\* C21: when the process exits on SIGINT or SIGTERM, disconnect has been called
\* on every client that was started and is not yet disconnected.
C21_ShutdownDisconnectsAll ==
  Exited =>
    \A b \in Bots : \A c \in LiveClients(b) :
      \E t \in CallIds : calls[t].ep = "shutdown" /\ c \in calls[t].tried

\* C22: when an explicit disconnect of an account returns, the registry holds
\* no entry for the account, whether client.disconnect succeeded or threw.
C22_DisconnectRemovesEntry ==
  [][\A t \in CallIds :
       (calls[t].pc = "disconnect" /\ calls'[t].pc = "idle")
         => telegramClients'[calls[t].bot] = NoClient]_vars

\* where an invocation of the handler can be
HandlerStages == {"photo", "download", "upload", "sync", "done"}

\* C23: no failure met while an event is handled (profile photo, download,
\* upload, the backend's response or its absence) leaves the handler other than
\* by a normal return: the invocation goes on to the sync call and finishes once
\* that call has settled, whatever its result.
C23_NothingEscapes ==
  \A i \in DOMAIN inv :
    /\ inv[i].pc \in HandlerStages
    /\ inv[i].resps # <<>> => Done(i)
    /\ Done(i) /\ Accepted(i) => Len(inv[i].resps) = 1

C23_Witness ==
  \E i, j \in DOMAIN inv :
    /\ Done(i) /\ inv[i].fetched /\ ~inv[i].photo /\ inv[i].resps = <<NetErr>>
    /\ Done(j) /\ inv[j].downloaded /\ ~inv[j].file /\ inv[j].resps = <<500>>

RECURSIVE Power(_, _)
Power(b, n) == IF n = 0 THEN 1 ELSE b * Power(b, n - 1)

\* min(baseDelay * multiplier^n, maxDelay): the delay before retry n, without jitter
Backoff(n, base, mult, cap) ==
  IF base * Power(mult, n) < cap THEN base * Power(mult, n) ELSE cap

\* the invocations whose last attempt failed retryably with retries left
AwaitingRetry ==
  {i \in DOMAIN inv : /\ Accepted(i) /\ Done(i) /\ inv[i].resps # <<>>
                       /\ Retryable(Last(inv[i].resps))
                       /\ inv[i].attempts <= maxRetries}

\* C24: for every setting of baseDelay, multiplier and maxDelay, retry n follows
\* the failed attempt after a delay within 0.75 .. 1.25 times
\* min(baseDelay * multiplier^n, maxDelay); stated for the upper end: no failed
\* attempt with retries left is still without its retry once 1.25 times that
\* delay has passed.
C24_BackoffWithinJitter ==
  \A base \in baseDelays, mult \in multipliers, cap \in maxDelays :
    \A i \in AwaitingRetry :
      4 * (now - inv[i].since) <= 5 * Backoff(inv[i].attempts - 1, base, mult, cap)

\* C25: a call to the ingestion or the asset endpoint that gets no response is
\* cancelled at the timeout, so no invocation is still awaiting the same call
\* once the timeout has passed.
C25_TimeoutCancels ==
  \A i \in DOMAIN inv :
    inv[i].pc \in {"upload", "sync"} => now - inv[i].since < timeoutTicks

\* C27: when a reconnect on the existing handle fails, the handle is discarded
\* and the registry entry of its account is removed (before any full
\* re-authentication): after the failure the client is closed and is no entry.
C27_FailedReconnectDiscards ==
  [][\A c \in Clients :
       (clientState[c] = "reconnecting" /\ clientState'[c] \notin {"reconnecting", "connected"})
         => /\ clientState'[c] = "closed"
            /\ telegramClients'[clientBot[c]] # c]_vars

\* C28: every event with a chat id, incoming or outgoing, is submitted to the
\* ingestion endpoint exactly once by its handler invocation (never twice, and
\* once as soon as the invocation has reached the sync call), and isOutgoing of
\* its payload is true exactly when message.out is true.
C28_OnceWithDirection ==
  \A i \in DOMAIN inv :
    Accepted(i) =>
      /\ inv[i].attempts <= 1
      /\ inv[i].pc \in {"sync", "done"} <=> inv[i].attempts = 1
      /\ Len(inv[i].resps) <= inv[i].attempts
      /\ inv[i].payload.isOutgoing <=> Media(i).out

C28_Witness ==
  \E i, j \in DOMAIN inv :
    /\ Done(i) /\ Media(i).out /\ inv[i].payload.isOutgoing /\ inv[i].attempts = 1
    /\ Done(j) /\ ~Media(j).out /\ ~inv[j].payload.isOutgoing /\ inv[j].attempts = 1

\* C29: when the download throws or yields empty bytes, the media resolves to
\* null without a call to the asset endpoint: the invocation goes from the
\* download straight to the sync call, and its payload carries no media key.
C29_DownloadFailureIsNull ==
  [][\A i \in DOMAIN inv' :
       /\ (i \in DOMAIN inv /\ inv[i].pc = "download" /\ inv'[i].pc \notin {"download", "upload"})
            => /\ inv'[i].pc = "sync" /\ inv'[i].attempts = 1
               /\ inv'[i].key = Null /\ ~inv'[i].file
       /\ updates'[inv'[i].bot][inv'[i].msg].bytes = EmptyBytes
            => /\ inv'[i].pc # "upload"
               /\ inv'[i].key = Null /\ ~inv'[i].file
       /\ (inv'[i].pc \in {"sync", "done"} /\ ~inv'[i].file) => inv'[i].key = Null]_vars

C29_Witness ==
  \E i \in DOMAIN inv :
    /\ Media(i).bytes = EmptyBytes /\ inv[i].downloaded
    /\ Done(i) /\ inv[i].success /\ inv[i].key = Null /\ ~inv[i].file

\* C30: for an animated (TGS) sticker the media resolves to null without a
\* download or an upload: the invocation goes to the sync call with no media key.
C30_TgsSkipped ==
  \A i \in DOMAIN inv :
    Media(i).media = "tgs" =>
      /\ ~inv[i].downloaded /\ inv[i].pc \in {"sync", "done"}
      /\ inv[i].attempts = 1 /\ inv[i].key = Null /\ ~inv[i].file

C30_Witness ==
  \E i \in DOMAIN inv : Media(i).media = "tgs" /\ Done(i) /\ inv[i].success

\* a document that counts as an animation when it is no sticker
Gif(d) == d.animated \/ (d.mimeType = <<"video", "mp4">> /\ d.nosound)

\* C31: a media is classified sticker first, then animation, then document by
\* its declared MIME type, then photo, then unknown; the MIME type sent to the
\* asset endpoint is image/webp for a static sticker, video/webm for a video
\* sticker, video/mp4 for an animation and image/jpeg for a photo, whatever MIME
\* type the document declares.
C31_ClassifiedAndNormalized ==
  \A i \in DOMAIN inv :
    inv[i].pc = "upload" =>
      LET m == Media(i)
          d == m.doc
          sent == inv[i].mime
          type == inv[i].mediaType
      IN IF m.media = "doc"
           THEN /\ d.sticker =>
                     /\ type = "sticker"
                     /\ sent = IF d.mimeType = <<"video", "webm">>
                                 THEN <<"video", "webm">> ELSE <<"image", "webp">>
                /\ (~d.sticker /\ Gif(d)) => type = "animation" /\ sent = <<"video", "mp4">>
                /\ (~d.sticker /\ ~Gif(d)) =>
                     /\ type \in {"video", "audio", "photo", "document"}
                     /\ type \in {"video", "audio"} <=> d.mimeType # NoMime /\ d.mimeType[1] = type
                     /\ type = "photo" <=> d.mimeType # NoMime /\ d.mimeType[1] = "image"
                     /\ sent = IF d.mimeType = NoMime
                                 THEN <<"application", "octet-stream">> ELSE d.mimeType
         ELSE IF m.media = "photo"
           THEN type = "photo" /\ sent = <<"image", "jpeg">>
           ELSE type = "unknown" /\ sent = <<"application", "octet-stream">>

C31_Witness ==
  \E i \in DOMAIN inv :
    /\ inv[i].pc = "upload" /\ Media(i).media = "doc"
    /\ Media(i).doc.sticker /\ Media(i).doc.animated /\ Media(i).doc.photo
    /\ Media(i).doc.mimeType = <<"image", "png">>
    /\ inv[i].mediaType = "sticker" /\ inv[i].mime = <<"image", "webp">>

\* mediaResult?.fileUniqueId || null of the payload of invocation i
PayloadKey(i) == IF inv[i].file THEN inv[i].key ELSE Null

\* C32: the payload carries a fileUniqueId only if, within the same invocation,
\* the asset endpoint answered the upload of that key with an OK response and
\* success = true; with no media, a skipped media, empty bytes or an account
\* without registry entry it is null.
C32_KeyOnlyAfterUpload ==
  \A i \in DOMAIN inv :
    /\ PayloadKey(i) # Null =>
         /\ inv[i].downloaded /\ inv[i].reg
         /\ ResponseOk(inv[i].answer.status) /\ inv[i].answer.success
         /\ PayloadKey(i) = fileUniqueId(Media(i))
         /\ inv[i].pc \in {"sync", "done"}
    /\ (\/ ~hasMedia(Media(i)) \/ SkippedMedia(Media(i))
        \/ Media(i).bytes = EmptyBytes \/ ~inv[i].reg) => PayloadKey(i) = Null

C32_Witness ==
  \E i, j \in DOMAIN inv :
    /\ Done(i) /\ PayloadKey(i) = <<"7">> /\ inv[i].answer = [status |-> 200, success |-> TRUE]
    /\ Done(j) /\ inv[j].downloaded /\ Media(j).bytes # EmptyBytes /\ PayloadKey(j) = Null

\* C33: when connectBot returns false (client.start or the identity lookup
\* failed), the registry is unchanged and the client that call started is not
\* left connected.
C33_FailedConnectLeavesNothing ==
  [][\A t \in CallIds :
       LET c == calls[t].client
           b == calls[t].bot
       IN (/\ calls'[t] # calls[t]
           /\ \/ calls[t].pc = "getMe" /\ telegramClients'[b] # c
              \/ calls[t].pc = "start" /\ ~(calls'[t].pc = "getMe" /\ calls'[t].client = c))
            => /\ telegramClients' = telegramClients
               /\ clientState'[c] \notin {"connected", "down", "reconnecting"}]_vars

\* invocation i starts a call of one of the kinds in this step
StartsCall(i, kinds) ==
  /\ i \in DOMAIN inv'
  /\ inv'[i].pc \in kinds
  /\ i \in DOMAIN inv => inv[i].pc # inv'[i].pc

\* C34: once disconnectBot has removed the account from the registry, no
\* ingestion call, media download or profile-photo fetch is started for an event
\* of that account until it has an entry again, also by invocations that were in
\* progress when the disconnect happened.
C34_NothingAfterDisconnect ==
  [][\A i \in DOMAIN inv' :
       StartsCall(i, {"photo", "download", "sync"})
         => telegramClients[inv'[i].bot] # NoClient]_vars

\* C34 as it holds: no media download and no profile-photo fetch is started
\* while the account has no entry; the ingestion call of an invocation in
\* progress is still made.
C34_NoClientCallAfterDisconnect ==
  [][\A i \in DOMAIN inv' :
       StartsCall(i, {"photo", "download"})
         => telegramClients[inv'[i].bot] # NoClient]_vars

C34_Witness ==
  \E i \in DOMAIN inv :
    /\ telegramClients[inv[i].bot] = NoClient
    /\ inv[i].reg /\ inv[i].fetched
    /\ hasMedia(Media(i)) /\ ~SkippedMedia(Media(i)) /\ ~inv[i].downloaded
    /\ inv[i].pc \in {"sync", "done"}

\* C35: when a reload completes, every entry of the registry holds a client
\* created during that reload: no session from before the reload survives it.
C35_ReloadReplacesSessions ==
  [][\A t \in CallIds :
       (calls[t].ep \in Endpoints /\ calls[t].pc # "idle" /\ calls'[t].pc = "idle")
         => \A b \in Bots : telegramClients'[b] \notin calls[t].before]_vars

\* call t begins to start a client in this step
StartsClient(t) ==
  /\ calls'[t].pc = "start"
  /\ calls[t].pc # "start" \/ calls[t].client # calls'[t].client

ConnectFails(t) ==
  /\ calls'[t] # calls[t]
  /\ \/ calls[t].pc = "getMe" /\ telegramClients'[calls[t].bot] # calls[t].client
     \/ calls[t].pc = "start" /\ ~(calls'[t].pc = "getMe" /\ calls'[t].client = calls[t].client)

\* the accounts of the roster of call t still to come that have no entry after
\* this step
StillMissing(t) == {b \in calls[t].todo : telegramClients'[b] = NoClient}

\* C37: during a roster load the accounts are connected one at a time and in
\* roster order, and after a failed connect the load goes on with the next
\* account of the roster that has no entry, down to the last one.
C37_OneByOneDespiteFailure ==
  [][\A t \in CallIds :
       calls[t].ep \in Endpoints =>
         /\ Cardinality({c \in Clients : clientState'[c] = "starting"}) <= 1
         /\ calls'[t].pc \in {"start", "getMe"} =>
              /\ \A b \in calls'[t].todo : b > calls'[t].bot
              /\ \A b \in calls'[t].passed \cup calls'[t].failed : b < calls'[t].bot
         /\ ConnectFails(t) =>
              IF StillMissing(t) = {}
                THEN calls'[t].pc = "idle"
                ELSE /\ calls'[t].pc = "start" /\ calls'[t].bot = MinOf(StillMissing(t))
                     /\ calls[t].bot \in calls'[t].failed]_vars

C37_Witness ==
  \E t \in CallIds :
    /\ calls[t].ep \in Endpoints /\ calls[t].pc = "start" /\ calls[t].bot = 2
    /\ 1 \in calls[t].failed /\ telegramClients[1] = NoClient

\* the body of the POST to telegram-mtproto-sync of invocation i, and of its
\* POST to upload-telegram-media
IngestionRequest(i) ==
  [data |-> inv[i].payload, fileUniqueId |-> PayloadKey(i), botToken |-> inv[i].botToken]
AssetRequest(i) ==
  [base64Data |-> Media(i).bytes, mimeType |-> inv[i].mime, fileUniqueId |-> inv[i].key,
   botId |-> inv[i].bot, mediaType |-> inv[i].mediaType]

\* what follows the first ":" of a credential, or the empty string
RECURSIVE AfterColon(_)
AfterColon(str) ==
  IF str = <<>> THEN <<>> ELSE IF Head(str) = ":" THEN str ELSE AfterColon(Tail(str))
SamePrefix(s, t) ==
  SubSeq(s, 1, Len(s) - Len(AfterColon(s))) = SubSeq(t, 1, Len(t) - Len(AfterColon(t)))

\* C38: the botToken of every ingestion payload is the credential up to its
\* first ":", and two handlers whose credentials differ only after the ":" send
\* identical ingestion requests, and asset requests identical but for the
\* account's id, for the same event with the same answers.
C38_OnlyTokenPrefix ==
  \A i \in DOMAIN inv :
    /\ \A k \in DOMAIN inv[i].botToken : inv[i].botToken[k] # ":"
    /\ inv[i].botToken \o AfterColon(api_token(inv[i].bot)) = api_token(inv[i].bot)
    /\ \A j \in DOMAIN inv :
         (/\ SamePrefix(api_token(inv[i].bot), api_token(inv[j].bot))
          /\ Media(i) = Media(j) /\ inv[i].pc = inv[j].pc /\ inv[i].file = inv[j].file)
           => /\ inv[i].pc \in {"sync", "done"} => IngestionRequest(i) = IngestionRequest(j)
              /\ inv[i].pc = "upload" =>
                   [AssetRequest(i) EXCEPT !.botId = 0] = [AssetRequest(j) EXCEPT !.botId = 0]

C38_Witness ==
  \E i, j \in DOMAIN inv :
    /\ inv[i].bot # inv[j].bot /\ api_token(inv[i].bot) # api_token(inv[j].bot)
    /\ Media(i) = Media(j) /\ Done(i) /\ Done(j) /\ inv[i].file /\ inv[j].file
    /\ IngestionRequest(i).botToken = <<"4", "2">>

\* the operations in progress that create or destroy the entry of account b
EntryOps(b) ==
  {t \in CallIds : /\ calls[t].bot = b
                    /\ calls[t].pc \in {"start", "getMe", "disconnect",
                                        "reloadDisconnect", "shutdownDisconnect"}}

\* C26: no two operations that create or destroy the registry entry of one
\* account are in progress at the same time.
C26_EntryOpsSerialized == \A b \in Bots : Cardinality(EntryOps(b)) <= 1

====
